---- MODULE Spec2Model ----
(***************************************************************************)
(* cate: cat with encoding detection and streaming syntax highlighting.   *)
(*                                                                         *)
(* Part I models src/src/encoder.rs: detect_encoding, get_system_encoding, *)
(* parse_encoding and the two read_*_with_encoding entry points, over      *)
(* byte sequences (bytes are 0..255, text is a sequence of code points).  *)
(***************************************************************************)
EXTENDS Integers, Sequences, FiniteSets, TLC

(***************************************************************************)
(* Bounds of the model.                                                    *)
(***************************************************************************)
\* longest byte body that follows the (optional) byte-order-mark prefix
MaxBody == 3

\* the same for the runs of detect_encoding alone
MaxDetectBody == 2

\* longest document, in characters, that main is given
MaxDocLen == 3

\* most options on one command line
MaxOptions == 2

(***************************************************************************)
(* Generic helpers.                                                        *)
(***************************************************************************)
SeqsUpTo(S, n) == UNION {[1..k -> S] : k \in 0..n}

Drop(s, k) == SubSeq(s, k + 1, Len(s))

StartsWith(s, p) == Len(s) >= Len(p) /\ SubSeq(s, 1, Len(p)) = p

Contains(s, x) == \E i \in 1..Len(s) : s[i] = x

(***************************************************************************)
(* State: one read_*_with_encoding call (Part I) ...                       *)
(***************************************************************************)
VARIABLES
  user_encoding,  \* Option<&Encoding>: the parsed -e hint, or NoEncoding
  env,            \* the platform record get_system_encoding reads
  debug,          \* --debug
  source,         \* "file" / "stdin" once a read_* function has been entered
  io,             \* outcome of fs::read / read_to_end: "ok", "error", "interrupted"
  bytes,          \* the raw bytes read
  detected,       \* DetectedEncoding {encoding, confidence}
  text,           \* the decoded String, as code points
  had_errors,     \* the had_errors flag decode() returned
  stderr,         \* the [DEBUG] lines printed, by tag
  ret             \* "none", "Ok", "Err", "exit0" (process::exit(0)), "detected"

encVars ==
  <<user_encoding, env, debug, source, io, bytes, detected, text, had_errors,
    stderr, ret>>

(***************************************************************************)
(* ... and main with print_content_streaming (Part IV).                    *)
(***************************************************************************)
VARIABLES
  args,                \* the parsed Args
  pc,                  \* where main is
  file_index,          \* i of the loop over args.files, from 1
  reader,              \* the Cursor: [content, pos]
  enable_highlighting, \* !no_highlight && should_colorize()
  line_highlighter,    \* Option<LineHighlighter>
  line_number,         \* line_number of print_content_streaming
  out,                 \* what reached stdout since the document was opened
  sink,                \* "open", or "closed" once the reader of stdout left
  exit_code            \* NotExited while running

mainVars ==
  <<args, pc, file_index, reader, enable_highlighting, line_highlighter,
    line_number, out, sink, exit_code>>

vars == <<encVars, mainVars>>

(***************************************************************************)
(* Encodings (encoding_rs statics named by the source) and confidences.   *)
(***************************************************************************)
UTF_8 == "UTF-8"
UTF_16LE == "UTF-16LE"
UTF_16BE == "UTF-16BE"
GBK == "GBK"
BIG5 == "Big5"
SHIFT_JIS == "Shift_JIS"
WINDOWS_1252 == "windows-1252"
EUC_JP == "EUC-JP"
KOI8_R == "KOI8-R"

NoEncoding == "None"

Certain == "Certain"
High == "High"
Low == "Low"

EncodingConfidence == {Certain, High, Low}

\* the byte-order-marks Encoding::for_bom recognises
Utf8Bom == <<239, 187, 191>>
Utf16LeBom == <<255, 254>>
Utf16BeBom == <<254, 255>>

\* Encoding::for_bom(bytes): Some((encoding, bom_length)) or None
for_bom(b) ==
  IF StartsWith(b, Utf8Bom) THEN [encoding |-> UTF_8, bom_length |-> 3]
  ELSE IF StartsWith(b, Utf16LeBom) THEN [encoding |-> UTF_16LE, bom_length |-> 2]
  ELSE IF StartsWith(b, Utf16BeBom) THEN [encoding |-> UTF_16BE, bom_length |-> 2]
  ELSE [encoding |-> NoEncoding, bom_length |-> 0]

(***************************************************************************)
(* UTF-8 well-formedness, as std::str::from_utf8 checks it.                *)
(***************************************************************************)
IsCont(c) == c >= 128 /\ c <= 191

\* number of continuation bytes a lead byte asks for (0: not a lead byte)
Utf8Needed(c) ==
  IF c >= 194 /\ c <= 223 THEN 1
  ELSE IF c >= 224 /\ c <= 239 THEN 2
  ELSE IF c >= 240 /\ c <= 244 THEN 3
  ELSE 0

\* the range allowed for the byte right after the lead byte
Utf8SecondOk(lead, c) ==
  IF lead = 224 THEN c >= 160 /\ c <= 191
  ELSE IF lead = 237 THEN c >= 128 /\ c <= 159
  ELSE IF lead = 240 THEN c >= 144 /\ c <= 191
  ELSE IF lead = 244 THEN c >= 128 /\ c <= 143
  ELSE IsCont(c)

RECURSIVE from_utf8_is_ok(_)
from_utf8_is_ok(b) ==
  IF b = <<>> THEN TRUE
  ELSE LET c == b[1]
           n == Utf8Needed(c)
       IN IF c < 128 THEN from_utf8_is_ok(Tail(b))
          ELSE /\ n > 0
               /\ Len(b) >= n + 1
               /\ Utf8SecondOk(c, b[2])
               /\ \A j \in 3..(n + 1) : IsCont(b[j])
               /\ from_utf8_is_ok(Drop(b, n + 1))

(***************************************************************************)
(* The decoders behind Encoding::decode.  A decoder yields one item per    *)
(* decoded character; Malformed marks a malformed sequence, which the      *)
(* caller turns into U+FFFD and reports through had_errors.                *)
(***************************************************************************)
Malformed == 0 - 1

ReplacementChar == 65533

\* how many of the n continuation bytes after the lead byte b[1] are good
Utf8GoodCount(b, n) ==
  LET good(j) == /\ Len(b) >= j + 1
                 /\ IF j = 1 THEN Utf8SecondOk(b[1], b[2]) ELSE IsCont(b[j + 1])
      ks == {k \in 0..n : \A j \in 1..k : good(j)}
  IN CHOOSE k \in ks : \A m \in ks : m <= k

Utf8CodePoint(b, n) ==
  IF n = 1 THEN (b[1] - 192) * 64 + (b[2] - 128)
  ELSE IF n = 2 THEN (b[1] - 224) * 4096 + (b[2] - 128) * 64 + (b[3] - 128)
  ELSE (b[1] - 240) * 262144 + (b[2] - 128) * 4096 + (b[3] - 128) * 64 + (b[4] - 128)

\* UTF-8 decoder: a malformed lead byte, or a lead byte with the longest run
\* of good continuation bytes after it, is one malformed sequence; decoding
\* resumes at the byte that broke the sequence
RECURSIVE Utf8Decode(_)
Utf8Decode(b) ==
  IF b = <<>> THEN <<>>
  ELSE LET c == b[1]
           n == Utf8Needed(c)
           g == Utf8GoodCount(b, n)
       IN IF c < 128 THEN <<c>> \o Utf8Decode(Tail(b))
          ELSE IF n = 0 THEN <<Malformed>> \o Utf8Decode(Tail(b))
          ELSE IF g = n THEN <<Utf8CodePoint(b, n)>> \o Utf8Decode(Drop(b, n + 1))
          ELSE <<Malformed>> \o Utf8Decode(Drop(b, g + 1))

IsLeadSurrogate(u) == u >= 55296 /\ u <= 56319

IsTrailSurrogate(u) == u >= 56320 /\ u <= 57343

NoSurrogate == 0 - 1

\* UTF-16 decoder (be: big endian); lead is the pending lead surrogate
RECURSIVE Utf16Decode(_, _, _)
Utf16Decode(b, be, lead) ==
  IF Len(b) = 0 THEN (IF lead = NoSurrogate THEN <<>> ELSE <<Malformed>>)
  ELSE IF Len(b) = 1 THEN <<Malformed>>
  ELSE LET u == IF be THEN b[1] * 256 + b[2] ELSE b[2] * 256 + b[1]
       IN IF lead # NoSurrogate
          THEN IF IsTrailSurrogate(u)
               THEN <<65536 + (lead - 55296) * 1024 + (u - 56320)>>
                      \o Utf16Decode(Drop(b, 2), be, NoSurrogate)
               ELSE <<Malformed>> \o Utf16Decode(b, be, NoSurrogate)
          ELSE IF IsLeadSurrogate(u) THEN Utf16Decode(Drop(b, 2), be, u)
          ELSE IF IsTrailSurrogate(u)
               THEN <<Malformed>> \o Utf16Decode(Drop(b, 2), be, NoSurrogate)
          ELSE <<u>> \o Utf16Decode(Drop(b, 2), be, NoSurrogate)

\* windows-1252: bytes 0x80..0x9F go through the index, every byte maps
Windows1252High ==
  <<8364, 129, 8218, 402, 8222, 8230, 8224, 8225, 710, 8240, 352, 8249, 338,
    141, 381, 143, 144, 8216, 8217, 8220, 8221, 8226, 8211, 8212, 732, 8482,
    353, 8250, 339, 157, 382, 376>>

Windows1252Decode(b) ==
  [i \in 1..Len(b) |->
     IF b[i] >= 128 /\ b[i] <= 159 THEN Windows1252High[b[i] - 127] ELSE b[i]]

\* Encoding::decode_without_bom_handling, for the encodings whose decoders
\* are modelled here (the table-driven CJK decoders are not)
DecodableEncodings == {UTF_8, UTF_16LE, UTF_16BE, WINDOWS_1252}

decode_without_bom_handling(enc, b) ==
  LET raw == CASE enc = UTF_8 -> Utf8Decode(b)
               [] enc = UTF_16LE -> Utf16Decode(b, FALSE, NoSurrogate)
               [] enc = UTF_16BE -> Utf16Decode(b, TRUE, NoSurrogate)
               [] enc = WINDOWS_1252 -> Windows1252Decode(b)
  IN [text |-> [i \in 1..Len(raw) |->
                  IF raw[i] = Malformed THEN ReplacementChar ELSE raw[i]],
      had_errors |-> Contains(raw, Malformed)]

\* Encoding::decode: BOM sniffing first (a BOM overrides the encoding and is
\* removed), then decoding with replacement
decode(enc, b) ==
  LET bom == for_bom(b)
      used == IF bom.encoding # NoEncoding THEN bom.encoding ELSE enc
      d == decode_without_bom_handling(used, Drop(b, bom.bom_length))
  IN [text |-> d.text, encoding_used |-> used, had_errors |-> d.had_errors]

\* the bytes of a String holding the given code points (Rust strings are UTF-8)
RECURSIVE Utf8Encode(_)
Utf8Encode(t) ==
  IF t = <<>> THEN <<>>
  ELSE LET c == t[1]
           enc == IF c < 128 THEN <<c>>
                  ELSE IF c < 2048 THEN <<192 + (c \div 64), 128 + (c % 64)>>
                  ELSE IF c < 65536
                       THEN <<224 + (c \div 4096), 128 + ((c \div 64) % 64), 128 + (c % 64)>>
                  ELSE <<240 + (c \div 262144), 128 + ((c \div 4096) % 64),
                         128 + ((c \div 64) % 64), 128 + (c % 64)>>
       IN enc \o Utf8Encode(Tail(t))

(***************************************************************************)
(* The platform: target_os, the Windows ANSI code page (GetACP) and LANG. *)
(***************************************************************************)
LangUnset == "unset"

\* lang.to_lowercase().contains("utf-8") || ...contains("utf8")
LangNamesUtf8(lang) == lang \in {"en_US.UTF-8", "C.utf8"}

\* get_system_encoding, both cfg(target_os) variants
get_system_encoding(e) ==
  IF e.platform = "windows"
  THEN CASE e.code_page = 936 -> GBK
         [] e.code_page = 950 -> BIG5
         [] e.code_page = 932 -> SHIFT_JIS
         [] e.code_page = 1252 -> WINDOWS_1252
         [] e.code_page = 65001 -> UTF_8
         [] OTHER -> UTF_8
  ELSE IF e.lang # LangUnset /\ LangNamesUtf8(e.lang) THEN UTF_8
  ELSE UTF_8

\* detect_encoding with the user hint consulted before the UTF-8 check
detect_encoding_hint_first(b, hint, dbg, e) ==
  IF for_bom(b).encoding # NoEncoding
  THEN [encoding |-> for_bom(b).encoding, confidence |-> Certain,
        log |-> IF dbg THEN <<"bom">> ELSE <<>>]
  ELSE IF hint # NoEncoding
  THEN [encoding |-> hint, confidence |-> Certain,
        log |-> IF dbg THEN <<"user">> ELSE <<>>]
  ELSE IF from_utf8_is_ok(b)
  THEN [encoding |-> UTF_8, confidence |-> High,
        log |-> IF dbg THEN <<"valid_utf8">> ELSE <<>>]
  ELSE [encoding |-> get_system_encoding(e), confidence |-> Low,
        log |-> IF dbg THEN <<"fallback">> ELSE <<>>]

\* detect_encoding without the BOM check
detect_encoding_no_bom(b, hint, dbg, e) ==
  IF from_utf8_is_ok(b)
  THEN [encoding |-> UTF_8, confidence |-> High,
        log |-> IF dbg THEN <<"valid_utf8">> ELSE <<>>]
  ELSE IF hint # NoEncoding
  THEN [encoding |-> hint, confidence |-> Certain,
        log |-> IF dbg THEN <<"user">> ELSE <<>>]
  ELSE [encoding |-> get_system_encoding(e), confidence |-> Low,
        log |-> IF dbg THEN <<"fallback">> ELSE <<>>]

\* detect_encoding that keeps the hint only when it decodes without errors
detect_encoding_validating(b, hint, dbg, e) ==
  IF for_bom(b).encoding # NoEncoding
  THEN [encoding |-> for_bom(b).encoding, confidence |-> Certain,
        log |-> IF dbg THEN <<"bom">> ELSE <<>>]
  ELSE IF from_utf8_is_ok(b)
  THEN [encoding |-> UTF_8, confidence |-> High,
        log |-> IF dbg THEN <<"valid_utf8">> ELSE <<>>]
  ELSE IF hint # NoEncoding
          /\ (hint \in DecodableEncodings => ~decode(hint, b).had_errors)
  THEN [encoding |-> hint, confidence |-> Certain,
        log |-> IF dbg THEN <<"user">> ELSE <<>>]
  ELSE [encoding |-> get_system_encoding(e), confidence |-> Low,
        log |-> IF dbg THEN <<"fallback">> ELSE <<>>]

\* detect_encoding whose fallback reports the confidence of the UTF-8 branch
detect_encoding_fallback_high(b, hint, dbg, e) ==
  IF for_bom(b).encoding # NoEncoding
  THEN [encoding |-> for_bom(b).encoding, confidence |-> Certain,
        log |-> IF dbg THEN <<"bom">> ELSE <<>>]
  ELSE IF from_utf8_is_ok(b)
  THEN [encoding |-> UTF_8, confidence |-> High,
        log |-> IF dbg THEN <<"valid_utf8">> ELSE <<>>]
  ELSE IF hint # NoEncoding
  THEN [encoding |-> hint, confidence |-> Certain,
        log |-> IF dbg THEN <<"user">> ELSE <<>>]
  ELSE [encoding |-> get_system_encoding(e), confidence |-> High,
        log |-> IF dbg THEN <<"fallback">> ELSE <<>>]

\* detect_encoding(bytes, user_encoding, debug): first match wins
\*   1. BOM  2. valid UTF-8  3. user hint  4. system encoding
\* log is what the debug branch of the taken arm prints to stderr
detect_encoding(b, hint, dbg, e) ==
  IF for_bom(b).encoding # NoEncoding
  THEN [encoding |-> for_bom(b).encoding, confidence |-> Certain,
        log |-> IF dbg THEN <<"bom">> ELSE <<>>]
  ELSE IF from_utf8_is_ok(b)
  THEN [encoding |-> UTF_8, confidence |-> High,
        log |-> IF dbg THEN <<"valid_utf8">> ELSE <<>>]
  ELSE IF hint # NoEncoding
  THEN [encoding |-> hint, confidence |-> Certain,
        log |-> IF dbg THEN <<"user">> ELSE <<>>]
  ELSE [encoding |-> get_system_encoding(e), confidence |-> Low,
        log |-> IF dbg THEN <<"fallback">> ELSE <<>>]

NoDetected == [encoding |-> NoEncoding, confidence |-> "None"]

\* byte inputs: an optional BOM followed by a body over a small alphabet:
\* 'h', 'i', C3 A9 (U+00E9 in UTF-8), FF (never valid in UTF-8) and D8 (a lead
\* surrogate's high byte in UTF-16)
BodyAlphabet == {104, 105, 195, 169, 255, 216}

BomPrefixes == {<<>>, Utf8Bom, Utf16LeBom, Utf16BeBom}

ByteInputs(n) == {p \o body : p \in BomPrefixes, body \in SeqsUpTo(BodyAlphabet, n)}

AllEncodings ==
  {UTF_8, UTF_16LE, UTF_16BE, GBK, BIG5, SHIFT_JIS, WINDOWS_1252, EUC_JP, KOI8_R}

UnixEnv(lang) == [platform |-> "unix", code_page |-> 0, lang |-> lang]

WindowsEnv(cp) == [platform |-> "windows", code_page |-> cp, lang |-> LangUnset]

AllEnvs ==
  {UnixEnv(l) : l \in {LangUnset, "en_US.UTF-8", "C"}}
    \cup {WindowsEnv(cp) : cp \in {936, 950, 932, 1252, 65001, 437}}

\* the platforms whose system encoding has a modelled decoder
DecodableEnvs == {e \in AllEnvs : get_system_encoding(e) \in DecodableEncodings}

EncStart ==
  /\ source = "none"
  /\ io = "pending"
  /\ bytes = <<>>
  /\ detected = NoDetected
  /\ text = <<>>
  /\ had_errors = FALSE
  /\ stderr = <<>>
  /\ ret = "none"

\* what both read functions do once the bytes are in hand: detect, trace,
\* decode, trace, return Ok((text, detected))
DecodeRead(b) ==
  LET d == detect_encoding(b, user_encoding, debug, env)
      dec == decode(d.encoding, b)
  IN /\ bytes' = b
     /\ detected' = [encoding |-> d.encoding, confidence |-> d.confidence]
     /\ text' = dec.text
     /\ had_errors' = dec.had_errors
     /\ stderr' = stderr \o d.log
                    \o (IF debug THEN <<"detected">> ELSE <<>>)
                    \o (IF dec.had_errors /\ debug THEN <<"decode_warning">> ELSE <<>>)
     /\ ret' = "Ok"

\* read_file_with_encoding that decodes without replacement and passes a
\* malformed input on as an error
read_file_strict ==
  /\ ret = "none"
  /\ source' = "file"
  /\ \/ /\ io' = "error"
        /\ ret' = "Err"
        /\ UNCHANGED <<bytes, detected, text, had_errors, stderr>>
     \/ \E b \in ByteInputs(MaxBody) :
          /\ io' = "ok"
          /\ IF decode(detect_encoding(b, user_encoding, debug, env).encoding, b).had_errors
             THEN /\ ret' = "Err"
                  /\ bytes' = b
                  /\ UNCHANGED <<detected, text, had_errors, stderr>>
             ELSE DecodeRead(b)
  /\ UNCHANGED <<user_encoding, env, debug>>
  /\ UNCHANGED mainVars

\* read_file_with_encoding(path, user_encoding, debug)
read_file_with_encoding ==
  /\ ret = "none"
  /\ source' = "file"
  /\ \/ /\ io' = "error"          \* fs::read failed: "Failed to read file"
        /\ ret' = "Err"
        /\ UNCHANGED <<bytes, detected, text, had_errors, stderr>>
     \/ \E b \in ByteInputs(MaxBody) :
          /\ io' = "ok"
          /\ DecodeRead(b)
  /\ UNCHANGED <<user_encoding, env, debug>>
  /\ UNCHANGED mainVars

\* read_stdin_with_encoding(user_encoding, debug)
read_stdin_with_encoding ==
  /\ ret = "none"
  /\ source' = "stdin"
  /\ \/ /\ io' = "interrupted"    \* Ctrl+C: std::process::exit(0)
        /\ ret' = "exit0"
        /\ UNCHANGED <<bytes, detected, text, had_errors, stderr>>
     \/ /\ io' = "error"          \* "Failed to read from stdin"
        /\ ret' = "Err"
        /\ UNCHANGED <<bytes, detected, text, had_errors, stderr>>
     \/ \E b \in ByteInputs(MaxBody) :
          /\ io' = "ok"
          /\ DecodeRead(b)
  /\ UNCHANGED <<user_encoding, env, debug>>
  /\ UNCHANGED mainVars

\* one application of detect_encoding to bytes already in hand
DetectOnly ==
  /\ ret = "none"
  /\ \E b \in ByteInputs(MaxDetectBody) :
       LET d == detect_encoding(b, user_encoding, debug, env)
       IN /\ bytes' = b
          /\ detected' = [encoding |-> d.encoding, confidence |-> d.confidence]
          /\ stderr' = stderr \o d.log
  /\ ret' = "detected"
  /\ UNCHANGED <<user_encoding, env, debug, source, io, text, had_errors>>
  /\ UNCHANGED mainVars



(***************************************************************************)
(* Part II: src/src/highlighter.rs, grammar selection.                     *)
(*                                                                         *)
(* SYNTAX_SET is the bundled grammar set; the model carries a small one.   *)
(* A grammar has a name, file extensions and the interpreters its          *)
(* first-line pattern recognises after "#!".  Text is a sequence of code   *)
(* points: '#' 35, '!' 33, 's' 115, 'h' 104, 'p' 112, 'y' 121.            *)
(***************************************************************************)
NoSyntax == [name |-> "None", file_extensions |-> {}, interpreters |-> {}]

PlainText == [name |-> "Plain Text", file_extensions |-> {"txt"}, interpreters |-> {}]

SYNTAX_SET ==
  << PlainText,
     [name |-> "Rust", file_extensions |-> {"rs"}, interpreters |-> {}],
     [name |-> "Makefile", file_extensions |-> {"make", "mk", "GNUmakefile"},
      interpreters |-> {}],
     [name |-> "Dockerfile", file_extensions |-> {"Dockerfile"}, interpreters |-> {}],
     [name |-> "Bourne Again Shell (bash)", file_extensions |-> {"sh", "bash"},
      interpreters |-> {<<115, 104>>}],
     [name |-> "Python", file_extensions |-> {"py"}, interpreters |-> {<<112, 121>>}] >>

\* str::to_lowercase on the strings of the model
to_lowercase(str) ==
  CASE str = "Rust" -> "rust"
    [] str = "RUST" -> "rust"
    [] str = "RS" -> "rs"
    [] str = "Makefile" -> "makefile"
    [] str = "GNUmakefile" -> "gnumakefile"
    [] str = "Dockerfile" -> "dockerfile"
    [] str = "DOCKERFILE" -> "dockerfile"
    [] str = "Plain Text" -> "plain text"
    [] str = "Python" -> "python"
    [] str = "PYTHON" -> "python"
    [] str = "Bourne Again Shell (bash)" -> "bourne again shell (bash)"
    [] str = "UTF8" -> "utf8"
    [] str = "CP936" -> "cp936"
    [] str = "EUC-JP" -> "euc-jp"
    [] str = "Latin1" -> "latin1"
    [] OTHER -> str

\* the first element of a sequence that satisfies Test, or NoSyntax
FirstWhere(seq, Test(_)) ==
  IF \E i \in 1..Len(seq) : Test(seq[i])
  THEN seq[CHOOSE i \in 1..Len(seq) : Test(seq[i]) /\ \A j \in 1..(i - 1) : ~Test(seq[j])]
  ELSE NoSyntax

\* the last element of a sequence that satisfies Test, or NoSyntax
LastWhere(seq, Test(_)) ==
  IF \E i \in 1..Len(seq) : Test(seq[i])
  THEN seq[CHOOSE i \in 1..Len(seq) :
             Test(seq[i]) /\ \A j \in (i + 1)..Len(seq) : ~Test(seq[j])]
  ELSE NoSyntax

\* SyntaxSet::find_syntax_by_name: exact name, searched from the end
SyntaxSet_find_syntax_by_name(name) ==
  LET Test(g) == g.name = name IN LastWhere(SYNTAX_SET, Test)

\* SyntaxSet::find_syntax_by_extension: searched from the end
SyntaxSet_find_syntax_by_extension(ext) ==
  LET Test(g) == \E e \in g.file_extensions : to_lowercase(e) = to_lowercase(ext)
  IN LastWhere(SYNTAX_SET, Test)

\* SyntaxSet::find_syntax_by_first_line: the grammar whose first-line
\* pattern matches; the patterns of the model match "#!" + interpreter
SyntaxSet_find_syntax_by_first_line(line) ==
  LET Test(g) == \E i \in g.interpreters : line = <<35, 33>> \o i
  IN LastWhere(SYNTAX_SET, Test)

\* SyntaxSet::find_syntax_plain_text
find_syntax_plain_text == SyntaxSet_find_syntax_by_name("Plain Text")

NoString == "<none>"

NoLine == <<0>>

NoPath == [file_name |-> NoString, extension |-> NoString]

\* Highlighter::find_syntax_by_name: exact name, then the first grammar whose
\* name or one of whose extensions equals the name ignoring case
find_syntax_by_name(name) ==
  IF SyntaxSet_find_syntax_by_name(name) # NoSyntax
  THEN SyntaxSet_find_syntax_by_name(name)
  ELSE LET Test(g) == \/ to_lowercase(g.name) = to_lowercase(name)
                      \/ \E e \in g.file_extensions :
                           to_lowercase(e) = to_lowercase(name)
       IN FirstWhere(SYNTAX_SET, Test)

\* the special file names of detect_syntax
SpecialFileSyntax(name) ==
  IF to_lowercase(name) \in {"makefile", "gnumakefile"}
  THEN SyntaxSet_find_syntax_by_name("Makefile")
  ELSE IF to_lowercase(name) = "dockerfile"
  THEN SyntaxSet_find_syntax_by_name("Dockerfile")
  ELSE NoSyntax

\* Highlighter::detect_syntax(first_line, file_path)
detect_syntax(first_line, file_path) ==
  LET byExt == IF file_path # NoPath /\ file_path.extension # NoString
               THEN SyntaxSet_find_syntax_by_extension(file_path.extension)
               ELSE NoSyntax
      byName == IF file_path # NoPath /\ file_path.file_name # NoString
                THEN IF SyntaxSet_find_syntax_by_name(file_path.file_name) # NoSyntax
                     THEN SyntaxSet_find_syntax_by_name(file_path.file_name)
                     ELSE SpecialFileSyntax(file_path.file_name)
                ELSE NoSyntax
      byLine == IF first_line # NoLine /\ StartsWith(first_line, <<35, 33>>)
                THEN SyntaxSet_find_syntax_by_first_line(first_line)
                ELSE NoSyntax
  IN IF byExt # NoSyntax THEN byExt
     ELSE IF byName # NoSyntax THEN byName
     ELSE IF byLine # NoSyntax THEN byLine
     ELSE find_syntax_plain_text

\* the grammar prepare_for_file selects, with the path consulted before the
\* explicit language
select_syntax_path_first(file_path, first_line, language) ==
  IF detect_syntax(first_line, file_path) # find_syntax_plain_text
  THEN detect_syntax(first_line, file_path)
  ELSE IF language # NoString /\ find_syntax_by_name(language) # NoSyntax
  THEN find_syntax_by_name(language)
  ELSE find_syntax_plain_text

\* the grammar Highlighter::prepare_for_file selects
select_syntax(file_path, first_line, language) ==
  IF language # NoString /\ find_syntax_by_name(language) # NoSyntax
  THEN find_syntax_by_name(language)
  ELSE detect_syntax(first_line, file_path)

(***************************************************************************)
(* The stateful line highlighter.  The tokenizer (syntect HighlightLines)  *)
(* is a black box: fed a line it either fails or yields styled ranges and  *)
(* moves to a new state.  Its state is whatever the lines handed to it so  *)
(* far made it: the model keeps them, in order, each with its outcome (a   *)
(* failed call may have moved the parse state part of the way).            *)
(* and takes its outcome as an input.  Escape stands for one whole escape  *)
(* sequence of the serializer.                                             *)
(***************************************************************************)
THEME_SET == {"base16-eighties.dark", "Solarized (dark)", "InspiredGitHub"}

NoHighlighter == [theme |-> NoString, true_color |-> FALSE]

\* Highlighter::new(theme_name, true_color): NoHighlighter stands for Err
Highlighter_new(theme_name, true_color) ==
  LET name == IF theme_name = NoString THEN "base16-eighties.dark" ELSE theme_name
  IN IF name \in THEME_SET THEN [theme |-> name, true_color |-> true_color]
     ELSE NoHighlighter

NoLineHighlighter ==
  [syntax |-> "None", true_color |-> FALSE, is_plain_text |-> FALSE, fed |-> <<>>]

\* Highlighter::prepare_for_file(file_path, first_line, language)
prepare_for_file(hl, file_path, first_line, language) ==
  LET syntax == select_syntax(file_path, first_line, language)
  IN [syntax |-> syntax.name,
      true_color |-> hl.true_color,
      is_plain_text |-> (syntax.name = "Plain Text"),
      fed |-> <<>>]

MAX_LINE_LENGTH == 16384

Escape == 27

\* as_24_bit_terminal_escaped(ranges, false): escape + text per range
as_24_bit_terminal_escaped(line) == <<Escape>> \o line

\* as_8bit_terminal_escaped: escape + text + reset per range
as_8bit_terminal_escaped(line) == <<Escape>> \o line \o <<Escape>>

\* str::len: the number of bytes of the UTF-8 form of the text
str_len(line) ==
  Len(line) + Cardinality({i \in 1..Len(line) : line[i] >= 128})
            + Cardinality({i \in 1..Len(line) : line[i] >= 2048})
            + Cardinality({i \in 1..Len(line) : line[i] >= 65536})

\* HighlightLines::highlight_line(fed_line, &SYNTAX_SET) with outcome tok:
\* the tokenizer state afterwards
Tokenized(lh, fed_line, tok) ==
  [lh EXCEPT !.fed = Append(@, [line |-> fed_line, tok |-> tok])]

\* highlight_line that takes a line of exactly MAX_LINE_LENGTH bytes for a
\* long one
highlight_line_inclusive(lh, line, tok) ==
  IF lh.is_plain_text THEN [ok |-> TRUE, str |-> line, lh |-> lh]
  ELSE IF str_len(line) >= MAX_LINE_LENGTH
  THEN [ok |-> tok = "ok", str |-> IF tok = "ok" THEN line ELSE <<>>,
        lh |-> Tokenized(lh, <<10>>, tok)]
  ELSE [ok |-> tok = "ok",
        str |-> IF tok # "ok" THEN <<>>
                ELSE IF lh.true_color THEN as_24_bit_terminal_escaped(line)
                ELSE as_8bit_terminal_escaped(line),
        lh |-> Tokenized(lh, line, tok)]

\* LineHighlighter::highlight_line(line); tok is the tokenizer's outcome.
\* Yields the Result (ok, the string) and the highlighter afterwards.
highlight_line(lh, line, tok) ==
  IF lh.is_plain_text THEN [ok |-> TRUE, str |-> line, lh |-> lh]
  ELSE IF str_len(line) > MAX_LINE_LENGTH
  THEN [ok |-> tok = "ok", str |-> IF tok = "ok" THEN line ELSE <<>>,
        lh |-> Tokenized(lh, <<10>>, tok)]
  ELSE [ok |-> tok = "ok",
        str |-> IF tok # "ok" THEN <<>>
                ELSE IF lh.true_color THEN as_24_bit_terminal_escaped(line)
                ELSE as_8bit_terminal_escaped(line),
        lh |-> Tokenized(lh, line, tok)]

(***************************************************************************)
(* Part III: src/src/printer.rs, the text each print function writes.      *)
(***************************************************************************)
\* char::is_whitespace
IsWhitespace(c) ==
  \/ c \in {9, 10, 11, 12, 13, 32, 133, 160, 5760, 8232, 8233, 8239, 8287, 12288}
  \/ (c >= 8192 /\ c <= 8202)

RECURSIVE trim_end(_)
trim_end(line) ==
  IF line # <<>> /\ IsWhitespace(line[Len(line)])
  THEN trim_end(SubSeq(line, 1, Len(line) - 1))
  ELSE line

\* the decimal digits of n, as "{}" formats a usize
RECURSIVE Digits(_)
Digits(n) == IF n < 10 THEN <<48 + n>> ELSE Digits(n \div 10) \o <<48 + (n % 10)>>

\* BufRead::read_line on a Cursor: the text after pos up to and including
\* the next '\n', or up to the end
read_line(content, pos) ==
  LET rest == Drop(content, pos)
  IN IF Contains(rest, 10)
     THEN SubSeq(rest, 1, CHOOSE i \in 1..Len(rest) :
                            rest[i] = 10 /\ \A j \in 1..(i - 1) : rest[j] # 10)
     ELSE rest

\* what print_plain_line(line, number, show_numbers) hands to stdout
plain_line_text(line, number, show_numbers) ==
  IF show_numbers
  THEN Digits(number) \o <<32>> \o trim_end(line) \o <<10>>
  ELSE line

\* print_single_line that writes nothing for a line the tokenizer failed on
single_line_text_dropping(h, line, number, show_numbers) ==
  LET highlighted == IF h.ok THEN h.str ELSE <<>>
  IN IF show_numbers THEN Digits(number) \o <<32>> \o highlighted
     ELSE highlighted

\* what print_single_line hands to stdout; h is highlight_line's Result
single_line_text(h, line, number, show_numbers) ==
  LET highlighted == IF h.ok THEN h.str ELSE line
  IN IF show_numbers THEN Digits(number) \o <<32>> \o highlighted
     ELSE highlighted

(***************************************************************************)
(* Part IV: src/src/main.rs.  parse_encoding, then one document per file   *)
(* operand (or standard input), each streamed by print_content_streaming.  *)
(***************************************************************************)
\* Encoding::for_label: the label lookup of the Encoding Standard, which
\* ignores case; NoEncoding stands for None
for_label(label) ==
  LET l == to_lowercase(label)
  IN CASE l \in {"utf-8", "utf8"} -> UTF_8
       [] l \in {"utf-16le", "utf-16"} -> UTF_16LE
       [] l = "utf-16be" -> UTF_16BE
       [] l = "gbk" -> GBK
       [] l \in {"shift-jis", "shift_jis", "sjis"} -> SHIFT_JIS
       [] l = "big5" -> BIG5
       [] l \in {"cp1252", "windows-1252", "iso-8859-1", "latin1"} -> WINDOWS_1252
       [] l = "euc-jp" -> EUC_JP
       [] l = "koi8-r" -> KOI8_R
       [] OTHER -> NoEncoding

\* parse_encoding that compares the label with the alias table as typed
parse_encoding_case_sensitive(enc_str) ==
  CASE enc_str \in {"utf-8", "utf8"} -> UTF_8
    [] enc_str \in {"utf-16le", "utf16le"} -> UTF_16LE
    [] enc_str \in {"utf-16be", "utf16be"} -> UTF_16BE
    [] enc_str \in {"gbk", "cp936"} -> GBK
    [] enc_str \in {"shift-jis", "shift_jis", "sjis"} -> SHIFT_JIS
    [] enc_str \in {"big5", "cp950"} -> for_label("big5")
    [] enc_str \in {"cp1252", "windows-1252"} -> WINDOWS_1252
    [] enc_str \in {"iso-8859-1", "latin1"} -> WINDOWS_1252
    [] OTHER -> for_label(enc_str)

\* parse_encoding(enc_str): NoEncoding stands for Err("Unsupported encoding")
parse_encoding(enc_str) ==
  LET l == to_lowercase(enc_str)
  IN CASE l \in {"utf-8", "utf8"} -> UTF_8
       [] l \in {"utf-16le", "utf16le"} -> UTF_16LE
       [] l \in {"utf-16be", "utf16be"} -> UTF_16BE
       [] l \in {"gbk", "cp936"} -> GBK
       [] l \in {"shift-jis", "shift_jis", "sjis"} -> SHIFT_JIS
       [] l \in {"big5", "cp950"} -> for_label("big5")
       [] l \in {"cp1252", "windows-1252"} -> WINDOWS_1252
       [] l \in {"iso-8859-1", "latin1"} -> WINDOWS_1252
       [] OTHER -> for_label(enc_str)

\* ColorMode::should_colorize; is_terminal is stdout().is_terminal()
should_colorize(color_mode, is_terminal) ==
  CASE color_mode = "Auto" -> is_terminal
    [] color_mode = "Always" -> TRUE
    [] color_mode = "Never" -> FALSE

NotExited == 0 - 1

NoReader == [content |-> <<>>, pos |-> 0]

\* the rest of the state while no document is being handled
MainStart ==
  /\ file_index = 1
  /\ reader = NoReader
  /\ enable_highlighting = FALSE
  /\ line_highlighter = NoLineHighlighter
  /\ line_number = 0
  /\ out = <<>>
  /\ sink = "open"
  /\ exit_code = NotExited

\* file operands: [file_name, extension] as Path::file_name / Path::extension
MainRs == [file_name |-> "main.rs", extension |-> "rs"]

Notes == [file_name |-> "notes", extension |-> NoString]

FileLists == {<<>>, <<MainRs>>, <<Notes>>, <<Notes, MainRs>>}

\* documents: 'a', ' ', '\n' in every order, and two that open with "#!sh"
TextAlphabet == {97, 32, 10}

ShebangLine == <<35, 33, 115, 104, 10>>

Docs == SeqsUpTo(TextAlphabet, MaxDocLen) \cup {ShebangLine, ShebangLine \o <<97>>}

\* lines around the long-line limit, terminator included: 'a' repeated and
\* a newline, one byte over the limit and exactly at it; the same with the
\* two-byte U+00E9; and a line over the limit that has no terminator
Repeat(c, n) == [i \in 1..n |-> c]

OverLongLine == Repeat(97, MAX_LINE_LENGTH) \o <<10>>

LimitLine == Repeat(97, MAX_LINE_LENGTH - 1) \o <<10>>

OverLongWideLine == Repeat(233, MAX_LINE_LENGTH \div 2) \o <<10>>

LimitWideLine == Repeat(233, MAX_LINE_LENGTH \div 2 - 1) \o <<97, 10>>

OverLongTail == Repeat(97, MAX_LINE_LENGTH + 1)

LongDocs ==
  {OverLongLine \o <<97, 10>>, LimitLine \o <<97, 10>>,
   OverLongWideLine \o <<97>>, LimitWideLine \o <<97>>,
   <<97, 10>> \o OverLongTail, ShebangLine \o OverLongLine \o <<97>>}

DefaultArgs ==
  [encoding |-> NoString, show_line_numbers |-> FALSE, no_highlight |-> FALSE,
   theme |-> NoString, language |-> NoString, color_mode |-> "Auto", files |-> <<>>]

OptionCount(a) ==
  Cardinality({f \in {"encoding", "show_line_numbers", "no_highlight", "theme",
                      "language", "color_mode"} : a[f] # DefaultArgs[f]})

CommandLines ==
  {a \in [encoding : {NoString, "UTF8", "CP936", "EUC-JP", "nosuch"},
          show_line_numbers : BOOLEAN,
          no_highlight : BOOLEAN,
          theme : {NoString, "Solarized (dark)", "nosuch"},
          language : {NoString, "rust"},
          color_mode : {"Auto", "Always", "Never"},
          files : FileLists] : OptionCount(a) <= MaxOptions}

\* the process ends with the given status; msg is what main's Err prints
Exit(code, msg) ==
  /\ exit_code' = code
  /\ pc' = "done"
  /\ stderr' = stderr \o msg

\* one write!/writeln! to stdout: w is "ok", "BrokenPipe" or "error"
WriteOutcomes == {"ok", "BrokenPipe", "error"}

CanWrite(w) == sink = "closed" => w = "BrokenPipe"

Written(data, w) ==
  /\ out' = IF w = "ok" THEN out \o data ELSE out
  /\ sink' = IF w = "BrokenPipe" THEN "closed" ELSE sink

\* main, lines 113-118: the -e label is parsed before anything is read
ParseEncoding ==
  /\ pc = "start"
  /\ IF args.encoding = NoString
     THEN /\ user_encoding' = NoEncoding
          /\ pc' = "open"
          /\ UNCHANGED <<exit_code, stderr>>
     ELSE IF parse_encoding(args.encoding) = NoEncoding
     THEN /\ Exit(1, <<"Unsupported encoding">>)
          /\ UNCHANGED user_encoding
     ELSE /\ user_encoding' = parse_encoding(args.encoding)
          /\ pc' = "open"
          /\ UNCHANGED <<exit_code, stderr>>
  /\ UNCHANGED <<args, file_index, reader, enable_highlighting, line_highlighter,
                 line_number, out, sink>>
  /\ UNCHANGED <<env, debug, source, io, bytes, detected, text, had_errors, ret>>

\* a read_*_with_encoding call returned Ok((content, detected)); out starts
\* over with the document
Opened(content) ==
  /\ reader' = [content |-> content, pos |-> 0]
  /\ out' = <<>>
  /\ pc' = "begin"
  /\ UNCHANGED <<exit_code, stderr>>

\* main, lines 121-125: no file operand, the document is standard input
ReadStdin ==
  /\ pc = "open"
  /\ args.files = <<>>
  /\ \/ Exit(0, <<>>) /\ UNCHANGED <<reader, out>>           \* Ctrl+C: exit(0)
     \/ Exit(1, <<"Failed to read from stdin">>) /\ UNCHANGED <<reader, out>>
     \/ \E content \in Docs : Opened(content)
  /\ UNCHANGED <<args, file_index, enable_highlighting, line_highlighter,
                 line_number, sink>>
  /\ UNCHANGED <<user_encoding, env, debug, source, io, bytes, detected, text,
                 had_errors, ret>>

\* main, lines 155-161: the next file operand is read and decoded
ReadFile ==
  /\ pc = "open"
  /\ args.files # <<>>
  /\ \/ Exit(1, <<"Failed to read file">>) /\ UNCHANGED <<reader, out>>
     \/ \E content \in Docs : Opened(content)
  /\ UNCHANGED <<args, file_index, enable_highlighting, line_highlighter,
                 line_number, sink>>
  /\ UNCHANGED <<user_encoding, env, debug, source, io, bytes, detected, text,
                 had_errors, ret>>

FilePath == IF args.files = <<>> THEN NoPath ELSE args.files[file_index]

\* a print function that passes a broken pipe on like any other error
Printed_propagating(w) ==
  IF w \in {"error", "BrokenPipe"} THEN Exit(1, <<"write error">>)
  ELSE pc' = "lines" /\ UNCHANGED <<exit_code, stderr>>

\* a print function returned: Ok(()) moves on, Err leaves main with status 1
Printed(w) ==
  IF w = "error" THEN Exit(1, <<"write error">>)
  ELSE pc' = "lines" /\ UNCHANGED <<exit_code, stderr>>

\* main lines 138/174 and print_content_streaming lines 14-46: the
\* highlighter is built and, when there is one, the first line is read, the
\* grammar selected and the first line printed
BeginStreaming ==
  /\ pc = "begin"
  /\ \E is_terminal \in BOOLEAN, true_color \in BOOLEAN,
        tok \in {"ok", "err"}, w \in WriteOutcomes :
       LET enable == ~args.no_highlight /\ should_colorize(args.color_mode, is_terminal)
           hl == IF enable THEN Highlighter_new(args.theme, true_color)
                 ELSE NoHighlighter
           first_line == read_line(reader.content, reader.pos)
           first_line_opt == IF first_line = <<>> THEN NoLine ELSE trim_end(first_line)
           lh == prepare_for_file(hl, FilePath, first_line_opt, args.language)
           h == highlight_line(lh, first_line, tok)
       IN /\ enable_highlighting' = enable
          /\ line_number' = 2
          /\ IF hl = NoHighlighter
             THEN /\ line_highlighter' = NoLineHighlighter
                  /\ pc' = "lines"
                  /\ UNCHANGED <<reader, out, sink, exit_code, stderr>>
             ELSE IF first_line = <<>>
             THEN /\ line_highlighter' = lh
                  /\ pc' = "lines"
                  /\ UNCHANGED <<reader, out, sink, exit_code, stderr>>
             ELSE /\ CanWrite(w)
                  /\ line_highlighter' = h.lh
                  /\ reader' = [reader EXCEPT !.pos = @ + Len(first_line)]
                  /\ Written(single_line_text(h, first_line, 1, args.show_line_numbers), w)
                  /\ Printed(w)
  /\ UNCHANGED <<args, file_index>>
  /\ UNCHANGED <<user_encoding, env, debug, source, io, bytes, detected, text,
                 had_errors, ret>>

\* print_content_streaming lines 48-58: one turn of the loop
PrintLine ==
  /\ pc = "lines"
  /\ reader.pos < Len(reader.content)
  /\ \E tok \in {"ok", "err"}, w \in WriteOutcomes :
       LET line == read_line(reader.content, reader.pos)
           h == highlight_line(line_highlighter, line, tok)
       IN /\ CanWrite(w)
          /\ reader' = [reader EXCEPT !.pos = @ + Len(line)]
          /\ IF line_highlighter # NoLineHighlighter
             THEN /\ line_highlighter' = h.lh
                  /\ Written(single_line_text(h, line, line_number,
                                              args.show_line_numbers), w)
             ELSE /\ UNCHANGED line_highlighter
                  /\ Written(plain_line_text(line, line_number,
                                             args.show_line_numbers), w)
          /\ line_number' = line_number + 1
          /\ Printed(w)
  /\ UNCHANGED <<args, file_index, enable_highlighting>>
  /\ UNCHANGED <<user_encoding, env, debug, source, io, bytes, detected, text,
                 had_errors, ret>>

\* print_content_streaming line 60 and main lines 151, 187-199: the document
\* is exhausted; main returns, or goes on to the separator
EndStreaming ==
  /\ pc = "lines"
  /\ reader.pos = Len(reader.content)
  /\ line_highlighter' = NoLineHighlighter
  /\ IF args.files # <<>> /\ file_index < Len(args.files)
     THEN pc' = "separator" /\ UNCHANGED <<exit_code, stderr>>
     ELSE Exit(0, <<>>)
  /\ UNCHANGED <<args, file_index, reader, enable_highlighting, line_number, out,
                 sink>>
  /\ UNCHANGED <<user_encoding, env, debug, source, io, bytes, detected, text,
                 had_errors, ret>>

\* main lines 188-196: a newline between two files; a broken pipe leaves
\* the loop
Separator ==
  /\ pc = "separator"
  /\ \E w \in WriteOutcomes :
       /\ CanWrite(w)
       /\ Written(<<10>>, w)
       /\ CASE w = "ok" ->
                 /\ file_index' = file_index + 1
                 /\ pc' = "open"
                 /\ UNCHANGED <<exit_code, stderr>>
            [] w = "BrokenPipe" -> Exit(0, <<>>) /\ UNCHANGED file_index
            [] w = "error" -> Exit(1, <<"write error">>) /\ UNCHANGED file_index
  /\ UNCHANGED <<args, reader, enable_highlighting, line_highlighter, line_number>>
  /\ UNCHANGED <<user_encoding, env, debug, source, io, bytes, detected, text,
                 had_errors, ret>>

(***************************************************************************)
(* Specifications.                                                         *)
(***************************************************************************)
\* main is not running
MainIdle == args = DefaultArgs /\ pc = "idle" /\ MainStart

\* main, from the parsed arguments on
Init ==
  /\ args \in CommandLines
  /\ pc = "start"
  /\ MainStart
  /\ user_encoding = NoEncoding
  /\ env = UnixEnv("en_US.UTF-8")
  /\ debug = FALSE
  /\ EncStart

Next ==
  \/ ParseEncoding
  \/ ReadStdin
  \/ ReadFile
  \/ BeginStreaming
  \/ PrintLine
  \/ EndStreaming
  \/ Separator

Spec == Init /\ [][Next]_vars

\* grammar selection alone: Highlighter::new(None, ..) and prepare_for_file
\* on the first line of the document
SelectGrammar ==
  /\ pc = "select"
  /\ LET hl == Highlighter_new(NoString, FALSE)
         first_line == read_line(reader.content, reader.pos)
         first_line_opt == IF first_line = <<>> THEN NoLine ELSE trim_end(first_line)
     IN line_highlighter' = prepare_for_file(hl, FilePath, first_line_opt, args.language)
  /\ pc' = "selected"
  /\ UNCHANGED <<args, file_index, reader, enable_highlighting, line_number, out,
                 sink, exit_code>>
  /\ UNCHANGED encVars

GrammarLanguages ==
  {NoString, "rust", "Rust", "RS", "sh", "PYTHON", "Plain Text", "nosuch"}

GrammarPaths ==
  {[file_name |-> "main.rs", extension |-> "rs"],
   [file_name |-> "run.sh", extension |-> "sh"],
   [file_name |-> "build.mk", extension |-> "mk"],
   [file_name |-> "notes.xyz", extension |-> "xyz"],
   [file_name |-> "notes", extension |-> NoString],
   [file_name |-> "Rust", extension |-> NoString],
   [file_name |-> "Makefile", extension |-> NoString],
   [file_name |-> "makefile", extension |-> NoString],
   [file_name |-> "GNUmakefile", extension |-> NoString],
   [file_name |-> "DOCKERFILE", extension |-> NoString]}

\* "", "#!sh\n", "#!sh \n", "#!py\n", "#!a\n", "a\n"
GrammarFirstLines ==
  {<<>>, <<35, 33, 115, 104, 10>>, <<35, 33, 115, 104, 32, 10>>,
   <<35, 33, 112, 121, 10>>, <<35, 33, 97, 10>>, <<97, 10>>}

InitGrammar ==
  /\ \E l \in GrammarLanguages, fs \in {<<>>} \cup {<<f>> : f \in GrammarPaths} :
       args = [DefaultArgs EXCEPT !.language = l, !.files = fs]
  /\ pc = "select"
  /\ file_index = 1
  /\ \E doc \in GrammarFirstLines : reader = [content |-> doc, pos |-> 0]
  /\ enable_highlighting = TRUE
  /\ line_highlighter = NoLineHighlighter
  /\ line_number = 0
  /\ out = <<>>
  /\ sink = "open"
  /\ exit_code = NotExited
  /\ user_encoding = NoEncoding
  /\ env = UnixEnv("en_US.UTF-8")
  /\ debug = FALSE
  /\ EncStart

NextGrammar == SelectGrammar

SpecGrammar == InitGrammar /\ [][NextGrammar]_vars

\* print_content_streaming on documents with lines around the long-line
\* limit, colour forced on
InitLongLines ==
  /\ \E n \in BOOLEAN, l \in {NoString, "rust"}, fs \in {<<MainRs>>, <<Notes>>} :
       args = [DefaultArgs EXCEPT !.color_mode = "Always", !.show_line_numbers = n,
                                  !.language = l, !.files = fs]
  /\ pc = "begin"
  /\ file_index = 1
  /\ \E doc \in LongDocs : reader = [content |-> doc, pos |-> 0]
  /\ enable_highlighting = FALSE
  /\ line_highlighter = NoLineHighlighter
  /\ line_number = 0
  /\ out = <<>>
  /\ sink = "open"
  /\ exit_code = NotExited
  /\ user_encoding = NoEncoding
  /\ env = UnixEnv("en_US.UTF-8")
  /\ debug = FALSE
  /\ EncStart

NextLongLines == BeginStreaming \/ PrintLine \/ EndStreaming

SpecLongLines == InitLongLines /\ [][NextLongLines]_vars

\* reading one input: the hint and the platform are those with a modelled decoder
InitEnc ==
  /\ user_encoding \in {NoEncoding} \cup DecodableEncodings
  /\ env \in {UnixEnv("en_US.UTF-8"), WindowsEnv(1252)}
  /\ debug \in BOOLEAN
  /\ EncStart
  /\ MainIdle

NextEnc == read_file_with_encoding \/ read_stdin_with_encoding

SpecEnc == InitEnc /\ [][NextEnc]_vars

\* detect_encoding alone, over every encoding and platform
InitDetect ==
  /\ user_encoding \in {NoEncoding} \cup AllEncodings
  /\ env \in AllEnvs
  /\ debug \in BOOLEAN
  /\ EncStart
  /\ MainIdle

NextDetect == DetectOnly

SpecDetect == InitDetect /\ [][NextDetect]_vars

(***************************************************************************)
(* Claims about the encoding resolver and the decoder.                     *)
(***************************************************************************)
ReadOk == ret = "Ok"

HasUtf8Bom == StartsWith(bytes, <<239, 187, 191>>)

HasUtf16LeBom == ~HasUtf8Bom /\ StartsWith(bytes, <<255, 254>>)

HasUtf16BeBom == StartsWith(bytes, <<254, 255>>)

HasBom == HasUtf8Bom \/ HasUtf16LeBom \/ HasUtf16BeBom

\* C1: an input that starts with a byte-order-mark is resolved to the BOM's
\* encoding with confidence Certain whatever the hint, and the text is the
\* decoding of the bytes after the BOM (EF BB BF 68 69 gives "hi")
C1_BomWins ==
  ReadOk =>
    /\ HasUtf8Bom =>
         /\ detected = [encoding |-> UTF_8, confidence |-> Certain]
         /\ text = decode_without_bom_handling(UTF_8, Drop(bytes, 3)).text
         /\ from_utf8_is_ok(Drop(bytes, 3)) => Utf8Encode(text) = Drop(bytes, 3)
    /\ HasUtf16LeBom =>
         /\ detected = [encoding |-> UTF_16LE, confidence |-> Certain]
         /\ text = decode_without_bom_handling(UTF_16LE, Drop(bytes, 2)).text
    /\ HasUtf16BeBom =>
         /\ detected = [encoding |-> UTF_16BE, confidence |-> Certain]
         /\ text = decode_without_bom_handling(UTF_16BE, Drop(bytes, 2)).text
    /\ bytes = <<239, 187, 191, 104, 105>> => text = <<104, 105>>

\* C1 witness: EF BB BF 68 69 read under a conflicting hint
C1_Witness ==
  /\ ReadOk
  /\ bytes = <<239, 187, 191, 104, 105>>
  /\ user_encoding = WINDOWS_1252
  /\ text = <<104, 105>>
  /\ detected.confidence = Certain

\* C2: a BOM-less input that is valid UTF-8 is resolved to UTF-8 with
\* confidence High whatever the hint, and re-encoding the text as UTF-8
\* gives the input bytes back
C2_ValidUtf8RoundTrip ==
  (ReadOk /\ ~HasBom /\ from_utf8_is_ok(bytes)) =>
    /\ detected = [encoding |-> UTF_8, confidence |-> High]
    /\ Utf8Encode(text) = bytes
    /\ ~had_errors

\* C2 witness: a multi-byte valid input read under a non-UTF-8 hint
C2_Witness ==
  /\ ReadOk
  /\ bytes = <<104, 195, 169>>
  /\ user_encoding = UTF_16LE
  /\ detected.confidence = High
  /\ text = <<104, 233>>

\* C3: with no BOM and bytes that are not valid UTF-8, a supplied hint is
\* the resolved encoding, with confidence Certain, also when decoding with it
\* reports errors
C3_HintUnvalidated ==
  (ReadOk /\ ~HasBom /\ ~from_utf8_is_ok(bytes) /\ user_encoding # NoEncoding) =>
    detected = [encoding |-> user_encoding, confidence |-> Certain]

\* C3 witness: the hint is used although it does not decode the bytes cleanly
C3_Witness ==
  /\ ReadOk
  /\ ~HasBom
  /\ ~from_utf8_is_ok(bytes)
  /\ user_encoding = UTF_16LE
  /\ detected = [encoding |-> UTF_16LE, confidence |-> Certain]
  /\ had_errors
  /\ Contains(text, 65533)

\* C4: Certain only by BOM or by a hint on BOM-less invalid UTF-8; High only
\* for BOM-less valid UTF-8, with UTF-8; Low only for BOM-less invalid UTF-8
\* without a hint, with the platform default
C4_ConfidenceProvenance ==
  ret = "detected" =>
    /\ detected.confidence \in EncodingConfidence
    /\ detected.confidence = Certain =>
         \/ HasBom
         \/ (user_encoding # NoEncoding /\ ~from_utf8_is_ok(bytes))
    /\ detected.confidence = High =>
         ~HasBom /\ from_utf8_is_ok(bytes) /\ detected.encoding = UTF_8
    /\ detected.confidence = Low =>
         /\ ~HasBom
         /\ ~from_utf8_is_ok(bytes)
         /\ user_encoding = NoEncoding
         /\ detected.encoding = get_system_encoding(env)
         /\ env.platform = "unix" => detected.encoding = UTF_8

\* C4 witness: the fallback on a Windows code page that maps to a CJK encoding
C4_Witness ==
  /\ ret = "detected"
  /\ detected = [encoding |-> GBK, confidence |-> Low]
  /\ env = WindowsEnv(936)
  /\ bytes = <<255>>

\* the bytes after the BOM are not well formed in the encoding
IsMalformedIn(enc, b) ==
  CASE enc = UTF_8 -> ~from_utf8_is_ok(b)
    [] enc \in {UTF_16LE, UTF_16BE} ->
         LET n == Len(b) \div 2
             u == [i \in 1..n |->
                     IF enc = UTF_16BE THEN b[2 * i - 1] * 256 + b[2 * i]
                     ELSE b[2 * i] * 256 + b[2 * i - 1]]
         IN \/ Len(b) % 2 = 1
            \/ \E i \in 1..n :
                 \/ IsLeadSurrogate(u[i]) /\ (i = n \/ ~IsTrailSurrogate(u[i + 1]))
                 \/ IsTrailSurrogate(u[i]) /\ (i = 1 \/ ~IsLeadSurrogate(u[i - 1]))
    [] OTHER -> FALSE

BomLength == IF HasUtf8Bom THEN 3 ELSE IF HasBom THEN 2 ELSE 0

\* C5: once the bytes were read the call returns Ok; a malformed input puts
\* a replacement character into the text and raises had_errors (and only a
\* malformed input does), and the flag only shows as a debug line
C5_DecodingNeverFails ==
  /\ (ret # "none" /\ io = "ok") => ret = "Ok"
  /\ ret = "Err" => io = "error"
  /\ ReadOk =>
       /\ had_errors = IsMalformedIn(detected.encoding, Drop(bytes, BomLength))
       /\ had_errors => Contains(text, 65533)
       /\ Contains(stderr, "decode_warning") = (had_errors /\ debug)

\* C5 witness: malformed UTF-8 read without debug tracing: Ok, with U+FFFD
C5_Witness ==
  /\ ReadOk
  /\ bytes = <<104, 255, 195>>
  /\ detected.encoding = UTF_8
  /\ text = <<104, 65533, 65533>>
  /\ had_errors
  /\ ~debug
  /\ stderr = <<>>

(***************************************************************************)
(* Claims about main and the streaming renderer.                           *)
(***************************************************************************)
ThemeUnknown == args.theme # NoString /\ args.theme \notin THEME_SET

\* C6: with highlighting enabled, a --theme that is not in the theme set
\* ends the run with a non-zero status before any document output
C6_UnknownThemeFatal ==
  (enable_highlighting /\ ThemeUnknown) =>
    /\ out = <<>>
    /\ pc = "done" => exit_code # 0

\* C7: the -e label is looked up in the alias table ignoring case, then by
\* the generic label lookup; a label neither knows ends main with a non-zero
\* status before anything is read or written
C7_UnknownEncodingFatal ==
  pc # "start" =>
    /\ args.encoding = "nosuch" =>
         /\ pc = "done"
         /\ exit_code = 1
         /\ stderr = <<"Unsupported encoding">>
         /\ reader = NoReader
         /\ out = <<>>
    /\ args.encoding = NoString => user_encoding = NoEncoding
    /\ args.encoding = "UTF8" => user_encoding = UTF_8
    /\ args.encoding = "CP936" => user_encoding = GBK
    /\ args.encoding = "EUC-JP" => user_encoding = EUC_JP
    /\ args.encoding # "nosuch" =>
         ~(pc = "done" /\ reader = NoReader /\ stderr = <<"Unsupported encoding">>)

\* C7 witness: the run given -e nosuch has ended with status 1, nothing read
C7_Witness ==
  /\ args.encoding = "nosuch"
  /\ args.files # <<>>
  /\ pc = "done"
  /\ exit_code = 1
  /\ reader = NoReader
  /\ out = <<>>

\* the text with Digits(n) and a space put before each of its lines, the
\* lines numbered from n on
RECURSIVE NumberedVerbatim(_, _)
NumberedVerbatim(t, n) ==
  IF t = <<>> THEN <<>>
  ELSE LET l == read_line(t, 0)
       IN Digits(n) \o <<32>> \o l \o NumberedVerbatim(Drop(t, Len(l)), n + 1)

\* the part of the document the renderer has consumed
Consumed == SubSeq(reader.content, 1, reader.pos)

\* C8: with --color never, while every write succeeds, the output is the
\* consumed text itself, or with -n that text with only a line number and a
\* space put before each line (numbered consecutively, from 1 or from 2)
C8_ColorNeverVerbatim ==
  (args.color_mode = "Never" /\ pc = "lines" /\ sink = "open") =>
    /\ ~Contains(out, Escape)
    /\ ~args.show_line_numbers => out = Consumed
    /\ args.show_line_numbers =>
         \/ out = NumberedVerbatim(Consumed, 1)
         \/ out = NumberedVerbatim(Consumed, 2)

\* C9: once the reader of stdout is gone (a write met a broken pipe, in
\* either print function or at the separator), no print call fails and the
\* process ends with status 0
C9_BrokenPipeIsNormal ==
  sink = "closed" =>
    /\ exit_code \in {NotExited, 0}
    /\ pc \in {"lines", "separator", "done"}
    /\ pc = "done" => exit_code = 0

\* C9 witness: the pipe broke in the second, highlighted file after the
\* first file and the separator had been written; the run ended with status 0
C9_Witness ==
  /\ sink = "closed"
  /\ pc = "done"
  /\ exit_code = 0
  /\ Len(args.files) = 2
  /\ file_index = 2
  /\ enable_highlighting
  /\ reader.content = <<97, 10, 97>>
  /\ out = <<Escape, 97, 10, Escape>>

(***************************************************************************)
(* Claims about grammar selection.                                         *)
(***************************************************************************)
Grammars == {SYNTAX_SET[i] : i \in 1..Len(SYNTAX_SET)}

SelFirstLine == trim_end(read_line(reader.content, 0))

LangMatch(g) ==
  \/ to_lowercase(g.name) = to_lowercase(args.language)
  \/ \E e \in g.file_extensions : to_lowercase(e) = to_lowercase(args.language)

ExplicitHit == args.language # NoString /\ \E g \in Grammars : LangMatch(g)

ExtHit ==
  FilePath.extension # NoString
    /\ \E g \in Grammars : FilePath.extension \in g.file_extensions

NameHit == FilePath.file_name # NoString /\ \E g \in Grammars : g.name = FilePath.file_name

SpecialHit == to_lowercase(FilePath.file_name) \in {"makefile", "gnumakefile", "dockerfile"}

ShebangMatch(g) == \E i \in g.interpreters : SelFirstLine = <<35, 33>> \o i

ShebangHit == \E g \in Grammars : ShebangMatch(g)

\* C10: the grammar is fixed by (language, path, first line) with the
\* precedence explicit language (name or extension, ignoring case) > file
\* extension > file name equal to a grammar name, then makefile / gnumakefile
\* / dockerfile ignoring case > shebang first line > Plain Text
C10_GrammarPrecedence ==
  pc = "selected" =>
    \E c \in Grammars :
      /\ c.name = line_highlighter.syntax
      /\ line_highlighter.is_plain_text = (c.name = "Plain Text")
      /\ IF ExplicitHit THEN LangMatch(c)
         ELSE IF ExtHit THEN FilePath.extension \in c.file_extensions
         ELSE IF NameHit THEN c.name = FilePath.file_name
         ELSE IF SpecialHit
         THEN c.name = IF to_lowercase(FilePath.file_name) = "dockerfile"
                       THEN "Dockerfile" ELSE "Makefile"
         ELSE IF ShebangHit THEN ShebangMatch(c)
         ELSE c.name = "Plain Text"

\* C10 witness: -l rust on run.sh whose first line is "#!py": Rust is chosen
C10_Witness ==
  /\ pc = "selected"
  /\ args.language = "rust"
  /\ FilePath.file_name = "run.sh"
  /\ SelFirstLine = <<35, 33, 112, 121>>
  /\ line_highlighter.syntax = "Rust"

(***************************************************************************)
(* Steps of the render loop, as the claims below look at them.             *)
(***************************************************************************)
\* the next line of the document: from the read position up to and
\* including the next newline, or up to the end
LineRead == read_line(reader.content, reader.pos)

\* this step read that line
ReadsLine ==
  /\ reader.pos < Len(reader.content)
  /\ reader' = [reader EXCEPT !.pos = @ + Len(LineRead)]

\* the step's write succeeded: the sink is still open and the loop goes on
WriteOk == sink' = "open" /\ pc' = "lines"

\* the line-number prefixes a line can get
MaxNumber == 9

NumberPrefixes ==
  IF args.show_line_numbers THEN {Digits(n) \o <<32>> : n \in 1..MaxNumber}
  ELSE {<<>>}

IsText(c) == c # Escape

Unstyled(e) == SelectSeq(e, IsText)

\* the step handed the line it read to a tokenizing (non-plain) highlighter
TokenizesLine ==
  /\ ReadsLine
  /\ line_highlighter' # NoLineHighlighter
  /\ ~line_highlighter'.is_plain_text

LastFed == line_highlighter'.fed[Len(line_highlighter'.fed)]

\* the step wrote the line as it is, behind its number if numbers are on
EmitsUnstyled == \E p \in NumberPrefixes : out' = out \o p \o LineRead

\* the step wrote the line with escape sequences put into it
EmitsStyled ==
  \E p \in NumberPrefixes :
    /\ Unstyled(out') = Unstyled(out) \o p \o LineRead
    /\ Len(out') > Len(out) + Len(p) + Len(LineRead)

\* C11: under a non-plain grammar every line read adds exactly one entry to
\* the tokenizer's history; for a line of more than 16384 bytes that entry
\* is a bare newline and the line is emitted unchanged, without any escape
\* sequence; a line of 16384 bytes or fewer (also one that follows a long
\* line) is itself given to the tokenizer and, when tokenizing succeeds, is
\* emitted styled.
C11_LongLineProtection ==
  [][TokenizesLine =>
       /\ line_highlighter'.fed = Append(line_highlighter.fed, LastFed)
       /\ IF str_len(LineRead) > MAX_LINE_LENGTH
          THEN /\ LastFed.line = <<10>>
               /\ WriteOk => EmitsUnstyled
          ELSE /\ LastFed.line = LineRead
               /\ (WriteOk /\ LastFed.tok = "ok") => EmitsStyled]_vars

\* a line of 8192 two-byte characters and a newline went out unstyled, the
\* tokenizer saw a newline for it, and the short line after it was styled
C11_Witness ==
  /\ pc = "lines"
  /\ reader.content = OverLongWideLine \o <<97>>
  /\ reader.pos = Len(reader.content)
  /\ line_highlighter.fed = <<[line |-> <<10>>, tok |-> "ok"],
                              [line |-> <<97>>, tok |-> "ok"]>>
  /\ out = OverLongWideLine \o <<Escape, 97, Escape>>

\* C12: when the tokenizer fails on a line (the line itself, or the newline
\* fed in place of an over-long line) the line is written once, as it is and
\* without escape sequences, and the loop goes on: the run ends there only
\* if the write itself failed, and a run that ends with status 0 has read
\* the document to its end.
C12_TokenizerFailureContained ==
  /\ [][(TokenizesLine /\ LastFed.tok = "err") =>
          /\ WriteOk => EmitsUnstyled
          /\ \/ pc' = "lines" /\ exit_code' = NotExited
             \/ /\ pc' = "done" /\ exit_code' = 1 /\ out' = out
                /\ stderr' = stderr \o <<"write error">>]_vars
  /\ [](pc = "done" /\ exit_code = 0 => reader.pos = Len(reader.content))

\* the tokenizer failed on the newline fed for an over-long line; that line
\* went out as it is and the line after it was still tokenized and styled
C12_Witness ==
  /\ pc = "lines"
  /\ reader.content = OverLongLine \o <<97, 10>>
  /\ reader.pos = Len(reader.content)
  /\ line_highlighter.fed = <<[line |-> <<10>>, tok |-> "err"],
                              [line |-> <<97, 10>>, tok |-> "ok"]>>
  /\ out = OverLongLine \o <<Escape, 97, 10, Escape>>

\* the document's first line as prepare_for_file gets it
FirstLineOpt ==
  IF reader.content = <<>> THEN NoLine ELSE trim_end(read_line(reader.content, 0))

\* the lines of a text, each with its terminator, the last maybe without
RECURSIVE SplitLines(_)
SplitLines(t) ==
  IF t = <<>> THEN <<>>
  ELSE LET l == read_line(t, 0) IN <<l>> \o SplitLines(Drop(t, Len(l)))

\* what highlight_line gives the tokenizer for a line
FedFor(l) == IF str_len(l) > MAX_LINE_LENGTH THEN <<10>> ELSE l

\* the lines the tokenizer was given so far, in the order it got them
FedLines == [k \in 1..Len(line_highlighter.fed) |-> line_highlighter.fed[k].line]

\* a highlighter that holds the grammar chosen from the path, the first line
\* of the document and --language
GrammarSelected ==
  line_highlighter.syntax = select_syntax(FilePath, FirstLineOpt, args.language).name

\* C13: with highlighting enabled, all through a document the highlighter
\* holds the one grammar chosen from the document's first line; under a
\* non-plain grammar the tokenizer has been given exactly the lines read so
\* far, once each and in document order; and, while the writes succeed, the
\* output is those lines in that order, none left out or repeated.
C13_SelectedOnceLinesInOrder ==
  (enable_highlighting /\ pc = "lines") =>
    /\ GrammarSelected
    /\ ~line_highlighter.is_plain_text =>
         FedLines = [k \in 1..Len(SplitLines(Consumed)) |->
                       FedFor(SplitLines(Consumed)[k])]
    /\ (sink = "open" /\ ~args.show_line_numbers) => Unstyled(out) = Consumed

\* the same, for the runs whose theme exists
C13_WithKnownTheme == ThemeUnknown \/ C13_SelectedOnceLinesInOrder

\* the number of the line this step reads: one more than the lines before it
LineIndex == Len(SplitLines(Consumed)) + 1

\* the step's output opens with the number of the line and a space
EmitsNumbered ==
  LET p == Digits(LineIndex) \o <<32>>
  IN /\ Len(out') >= Len(out) + Len(p)
     /\ SubSeq(out', Len(out) + 1, Len(out) + Len(p)) = p

\* C14: with line numbers requested, the k-th line read from the document
\* is written with the prefix k, whether or not highlighting is enabled.
C14_IncrementingLineNumbers ==
  [][(args.show_line_numbers /\ ReadsLine /\ WriteOk) => EmitsNumbered]_vars

\* the same, for the lines that go through a line highlighter
C14_WhenHighlighted ==
  [][(args.show_line_numbers /\ ReadsLine /\ WriteOk
        /\ line_highlighter' # NoLineHighlighter) => EmitsNumbered]_vars

====
